---- MODULE Spec2Model ----
(***************************************************************************)
(* Discrete Interval Encoding Tree (src/src/lib.rs).                       *)
(*                                                                         *)
(* The domain type T is modelled as the bounded integer type 0 .. MaxVal   *)
(* with wrapping add_one / sub_one (Step) at the two ends.  A Link<T> =    *)
(* Option<Box<Node<T>>> is the empty sequence (None) or a one-element      *)
(* sequence holding a Node record (Some).  The recursive functions of the  *)
(* code are recursive operators that return the values the code returns   *)
(* together with the new contents of the &mut arguments, and four          *)
(* observations of the execution: panic (an unwrap of None), steps (the    *)
(* arguments handed to add_one / sub_one), calls (the number of calls      *)
(* made) and spliced (the nodes consume_*_link took out of their link, as  *)
(* they were when the call found them).                                    *)
(***************************************************************************)
EXTENDS Integers, Sequences, FiniteSets, TLC

\* Largest value of the domain type T (the smallest is 0).
MaxVal == 6

\* Number of segments fed to each of the two trees of SpecOrder.
MaxSegs == 3

\* Largest value of the segments fed to the two trees of SpecOrder.
MaxOrderVal == 3

Domain == 0 .. MaxVal

\* ------------------------------------------------------------------------
\* Option / Link
\* ------------------------------------------------------------------------
None == <<>>

Some(x) == <<x>>

is_none(opt) == Len(opt) = 0

\* Step::add_one on the bounded type: wraps at MaxVal.
add_one(x) == IF x = MaxVal THEN 0 ELSE x + 1

\* Step::sub_one on the bounded type: wraps at 0.
sub_one(x) == IF x = 0 THEN MaxVal ELSE x - 1

\* ------------------------------------------------------------------------
\* Segment
\* ------------------------------------------------------------------------
\* Segment::new asserting left < right.
Segment_new_strict(left, right) ==
    IF left < right
    THEN [panic |-> FALSE, value |-> Some([left |-> left, right |-> right])]
    ELSE [panic |-> TRUE, value |-> None]

\* Segment::new: the assertion left <= right fails (panic) or the segment
\* is returned.
Segment_new(left, right) ==
    IF left <= right
    THEN [panic |-> FALSE, value |-> Some([left |-> left, right |-> right])]
    ELSE [panic |-> TRUE, value |-> None]

Segment_contains(self, value) == self.left <= value /\ value <= self.right

\* The segments a caller can construct: the successful results of Segment::new.
Segments ==
    { Segment_new(p[1], p[2]).value[1] :
        p \in { q \in Domain \X Domain : ~Segment_new(q[1], q[2]).panic } }

\* ------------------------------------------------------------------------
\* Node
\* ------------------------------------------------------------------------
Node_new(segment) == [segment |-> segment, left |-> None, right |-> None]

RECURSIVE consume_left_link(_, _)
RECURSIVE consume_right_link(_, _)
RECURSIVE insert_link(_, _)
RECURSIVE Node_insert(_, _)
RECURSIVE Node_contains(_, _)

\* consume_left_link that returns the adjacent node's left end but leaves the
\* node in the tree (the mem::replace of the link forgotten).
consume_left_link_keep(link, left) ==
    IF ~is_none(link)
    THEN LET node == link[1] IN
         IF add_one(node.segment.right) < left
         THEN LET r == consume_left_link(node.right, left) IN
              [ret   |-> r.ret,
               link  |-> Some([node EXCEPT !.right = r.link]),
               panic |-> r.panic,
               steps |-> {<<"add_one", node.segment.right>>} \cup r.steps,
               calls |-> r.calls + 1,
               spliced |-> r.spliced]
         ELSE [ret   |-> node.segment.left,
               link  |-> link,
               panic |-> FALSE,
               steps |-> {<<"add_one", node.segment.right>>},
               calls |-> 1,
               spliced |-> {}]
    ELSE [ret |-> left, link |-> link, panic |-> FALSE, steps |-> {}, calls |-> 1,
          spliced |-> {}]

\* consume_left_link that puts nothing in place of the node it takes out, so
\* that the node's left subtree goes with it.
consume_left_link_drop_all(link, left) ==
    IF ~is_none(link)
    THEN LET node == link[1] IN
         IF add_one(node.segment.right) < left
         THEN LET r == consume_left_link(node.right, left) IN
              [ret   |-> r.ret,
               link  |-> Some([node EXCEPT !.right = r.link]),
               panic |-> r.panic,
               steps |-> {<<"add_one", node.segment.right>>} \cup r.steps,
               calls |-> r.calls + 1,
               spliced |-> r.spliced]
         ELSE LET leftptr  == node.left
                  detached == Some([node EXCEPT !.left = None])
                  \* mem::replace(link, leftptr) hands back the old *link
                  old      == detached
              IN  [ret   |-> IF is_none(old) THEN left ELSE old[1].segment.left,
                   link  |-> None,
                   panic |-> is_none(old),
                   steps |-> {<<"add_one", node.segment.right>>},
                   calls |-> 1,
                   spliced |-> {[side |-> "left", node |-> node]}]
    ELSE [ret |-> left, link |-> link, panic |-> FALSE, steps |-> {}, calls |-> 1,
          spliced |-> {}]

\* consume_left_link that returns the bound it was given instead of the left
\* end of the node it takes out.
consume_left_link_ret_bound(link, left) ==
    IF ~is_none(link)
    THEN LET node == link[1] IN
         IF add_one(node.segment.right) < left
         THEN LET r == consume_left_link(node.right, left) IN
              [ret   |-> r.ret,
               link  |-> Some([node EXCEPT !.right = r.link]),
               panic |-> r.panic,
               steps |-> {<<"add_one", node.segment.right>>} \cup r.steps,
               calls |-> r.calls + 1,
               spliced |-> r.spliced]
         ELSE LET leftptr  == node.left
                  detached == Some([node EXCEPT !.left = None])
                  \* mem::replace(link, leftptr) hands back the old *link
                  old      == detached
              IN  [ret   |-> left,
                   link  |-> leftptr,
                   panic |-> is_none(old),
                   steps |-> {<<"add_one", node.segment.right>>},
                   calls |-> 1,
                   spliced |-> {[side |-> "left", node |-> node]}]
    ELSE [ret |-> left, link |-> link, panic |-> FALSE, steps |-> {}, calls |-> 1,
          spliced |-> {}]

\* consume_left_link that tests adjacency by stepping the bound down instead
\* of stepping the node's right end up.
consume_left_link_step_down(link, left) ==
    IF ~is_none(link)
    THEN LET node == link[1] IN
         IF node.segment.right < sub_one(left)
         THEN LET r == consume_left_link(node.right, left) IN
              [ret   |-> r.ret,
               link  |-> Some([node EXCEPT !.right = r.link]),
               panic |-> r.panic,
               steps |-> {<<"sub_one", left>>} \cup r.steps,
               calls |-> r.calls + 1,
               spliced |-> r.spliced]
         ELSE LET leftptr  == node.left
                  detached == Some([node EXCEPT !.left = None])
                  \* mem::replace(link, leftptr) hands back the old *link
                  old      == detached
              IN  [ret   |-> IF is_none(old) THEN left ELSE old[1].segment.left,
                   link  |-> leftptr,
                   panic |-> is_none(old),
                   steps |-> {<<"sub_one", left>>},
                   calls |-> 1,
                   spliced |-> {[side |-> "left", node |-> node]}]
    ELSE [ret |-> left, link |-> link, panic |-> FALSE, steps |-> {}, calls |-> 1,
          spliced |-> {}]

\* consume_left_link(&mut link, left) -> T.  ret is the returned boundary,
\* link the contents of *link on return.
consume_left_link(link, left) ==
    IF ~is_none(link)
    THEN LET node == link[1] IN
         IF add_one(node.segment.right) < left
         THEN LET r == consume_left_link(node.right, left) IN
              [ret   |-> r.ret,
               link  |-> Some([node EXCEPT !.right = r.link]),
               panic |-> r.panic,
               steps |-> {<<"add_one", node.segment.right>>} \cup r.steps,
               calls |-> r.calls + 1,
               spliced |-> r.spliced]
         ELSE LET leftptr  == node.left
                  detached == Some([node EXCEPT !.left = None])
                  \* mem::replace(link, leftptr) hands back the old *link
                  old      == detached
              IN  [ret   |-> IF is_none(old) THEN left ELSE old[1].segment.left,
                   link  |-> leftptr,
                   panic |-> is_none(old),
                   steps |-> {<<"add_one", node.segment.right>>},
                   calls |-> 1,
                   spliced |-> {[side |-> "left", node |-> node]}]
    ELSE [ret |-> left, link |-> link, panic |-> FALSE, steps |-> {}, calls |-> 1,
          spliced |-> {}]

\* consume_right_link that unwraps the link after the replacement, that is,
\* the detached right pointer, instead of the node taken out.
consume_right_link_unwrap_new(link, right) ==
    IF ~is_none(link)
    THEN LET node == link[1] IN
         IF sub_one(node.segment.left) > right
         THEN LET r == consume_right_link(node.left, right) IN
              [ret   |-> r.ret,
               link  |-> Some([node EXCEPT !.left = r.link]),
               panic |-> r.panic,
               steps |-> {<<"sub_one", node.segment.left>>} \cup r.steps,
               calls |-> r.calls + 1,
               spliced |-> r.spliced]
         ELSE LET rightptr == node.right
                  old      == rightptr
              IN  [ret   |-> IF is_none(old) THEN right ELSE old[1].segment.right,
                   link  |-> rightptr,
                   panic |-> is_none(old),
                   steps |-> {<<"sub_one", node.segment.left>>},
                   calls |-> 1,
                   spliced |-> {[side |-> "right", node |-> node]}]
    ELSE [ret |-> right, link |-> link, panic |-> FALSE, steps |-> {}, calls |-> 1,
          spliced |-> {}]

\* consume_right_link that also takes out a node one missing value away from
\* the bound (the step applied twice).
consume_right_link_gap(link, right) ==
    IF ~is_none(link)
    THEN LET node == link[1] IN
         IF sub_one(sub_one(node.segment.left)) > right
         THEN LET r == consume_right_link(node.left, right) IN
              [ret   |-> r.ret,
               link  |-> Some([node EXCEPT !.left = r.link]),
               panic |-> r.panic,
               steps |-> {<<"sub_one", node.segment.left>>} \cup r.steps,
               calls |-> r.calls + 1,
               spliced |-> r.spliced]
         ELSE LET rightptr == node.right
                  detached == Some([node EXCEPT !.right = None])
                  old      == detached
              IN  [ret   |-> IF is_none(old) THEN right ELSE old[1].segment.right,
                   link  |-> rightptr,
                   panic |-> is_none(old),
                   steps |-> {<<"sub_one", node.segment.left>>},
                   calls |-> 1,
                   spliced |-> {[side |-> "right", node |-> node]}]
    ELSE [ret |-> right, link |-> link, panic |-> FALSE, steps |-> {}, calls |-> 1,
          spliced |-> {}]

\* consume_right_link(&mut link, right) -> T, the mirror image.
consume_right_link(link, right) ==
    IF ~is_none(link)
    THEN LET node == link[1] IN
         IF sub_one(node.segment.left) > right
         THEN LET r == consume_right_link(node.left, right) IN
              [ret   |-> r.ret,
               link  |-> Some([node EXCEPT !.left = r.link]),
               panic |-> r.panic,
               steps |-> {<<"sub_one", node.segment.left>>} \cup r.steps,
               calls |-> r.calls + 1,
               spliced |-> r.spliced]
         ELSE LET rightptr == node.right
                  detached == Some([node EXCEPT !.right = None])
                  old      == detached
              IN  [ret   |-> IF is_none(old) THEN right ELSE old[1].segment.right,
                   link  |-> rightptr,
                   panic |-> is_none(old),
                   steps |-> {<<"sub_one", node.segment.left>>},
                   calls |-> 1,
                   spliced |-> {[side |-> "right", node |-> node]}]
    ELSE [ret |-> right, link |-> link, panic |-> FALSE, steps |-> {}, calls |-> 1,
          spliced |-> {}]

\* Node::insert_link that puts the new node in the link whatever it holds.
insert_link_overwrite(link, segment) ==
    [link |-> Some(Node_new(segment)), panic |-> FALSE, steps |-> {},
     calls |-> 1, spliced |-> {}]

\* Node::insert_link(&mut link, segment).
insert_link(link, segment) ==
    IF ~is_none(link)
    THEN LET r == Node_insert(link[1], segment) IN
         [link |-> Some(r.node), panic |-> r.panic, steps |-> r.steps,
          calls |-> r.calls + 1,
          spliced |-> r.spliced]
    ELSE [link |-> Some(Node_new(segment)), panic |-> FALSE, steps |-> {},
          calls |-> 1, spliced |-> {}]

\* The result of a consume_*_link call that was not made.
NotCalled(bound, link) ==
    [ret |-> bound, link |-> link, panic |-> FALSE, steps |-> {}, calls |-> 0,
     spliced |-> {}]

\* Node::insert that, when the segment overlaps the node, takes the segment's
\* left end without testing that it lies below the node's.
Node_insert_unguarded(self, segment) ==
    IF segment.right < self.segment.left
    THEN IF segment.right < sub_one(self.segment.left)
         THEN LET r == insert_link(self.left, segment) IN
              [node  |-> [self EXCEPT !.left = r.link],
               panic |-> r.panic,
               steps |-> {<<"sub_one", self.segment.left>>} \cup r.steps,
               calls |-> r.calls + 1,
               spliced |-> r.spliced]
         ELSE LET r == consume_left_link(self.left, segment.left) IN
              [node  |-> [self EXCEPT !.left = r.link, !.segment.left = r.ret],
               panic |-> r.panic,
               steps |-> {<<"sub_one", self.segment.left>>} \cup r.steps,
               calls |-> r.calls + 1,
               spliced |-> r.spliced]
    ELSE IF segment.left > self.segment.right
    THEN IF segment.left > add_one(self.segment.right)
         THEN LET r == insert_link(self.right, segment) IN
              [node  |-> [self EXCEPT !.right = r.link],
               panic |-> r.panic,
               steps |-> {<<"add_one", self.segment.right>>} \cup r.steps,
               calls |-> r.calls + 1,
               spliced |-> r.spliced]
         ELSE LET r == consume_right_link(self.right, segment.right) IN
              [node  |-> [self EXCEPT !.right = r.link, !.segment.right = r.ret],
               panic |-> r.panic,
               steps |-> {<<"add_one", self.segment.right>>} \cup r.steps,
               calls |-> r.calls + 1,
               spliced |-> r.spliced]
    ELSE LET c1 == consume_left_link(self.left, segment.left)
             s1 == [self EXCEPT !.left = c1.link, !.segment.left = c1.ret]
             c2 == IF segment.right > s1.segment.right
                   THEN consume_right_link(s1.right, segment.right)
                   ELSE NotCalled(s1.segment.right, s1.right)
             s2 == [s1 EXCEPT !.right = c2.link, !.segment.right = c2.ret]
         IN  [node  |-> s2,
              panic |-> c1.panic \/ c2.panic,
              steps |-> c1.steps \cup c2.steps,
              calls |-> c1.calls + c2.calls + 1,
              spliced |-> c1.spliced \cup c2.spliced]

\* Node::insert that takes a segment adjacent to the node's left end for one
\* separated from it (<= for <).
Node_insert_le(self, segment) ==
    IF segment.right < self.segment.left
    THEN IF segment.right <= sub_one(self.segment.left)
         THEN LET r == insert_link(self.left, segment) IN
              [node  |-> [self EXCEPT !.left = r.link],
               panic |-> r.panic,
               steps |-> {<<"sub_one", self.segment.left>>} \cup r.steps,
               calls |-> r.calls + 1,
               spliced |-> r.spliced]
         ELSE LET r == consume_left_link(self.left, segment.left) IN
              [node  |-> [self EXCEPT !.left = r.link, !.segment.left = r.ret],
               panic |-> r.panic,
               steps |-> {<<"sub_one", self.segment.left>>} \cup r.steps,
               calls |-> r.calls + 1,
               spliced |-> r.spliced]
    ELSE IF segment.left > self.segment.right
    THEN IF segment.left > add_one(self.segment.right)
         THEN LET r == insert_link(self.right, segment) IN
              [node  |-> [self EXCEPT !.right = r.link],
               panic |-> r.panic,
               steps |-> {<<"add_one", self.segment.right>>} \cup r.steps,
               calls |-> r.calls + 1,
               spliced |-> r.spliced]
         ELSE LET r == consume_right_link(self.right, segment.right) IN
              [node  |-> [self EXCEPT !.right = r.link, !.segment.right = r.ret],
               panic |-> r.panic,
               steps |-> {<<"add_one", self.segment.right>>} \cup r.steps,
               calls |-> r.calls + 1,
               spliced |-> r.spliced]
    ELSE LET c1 == IF segment.left < self.segment.left
                   THEN consume_left_link(self.left, segment.left)
                   ELSE NotCalled(self.segment.left, self.left)
             s1 == [self EXCEPT !.left = c1.link, !.segment.left = c1.ret]
             c2 == IF segment.right > s1.segment.right
                   THEN consume_right_link(s1.right, segment.right)
                   ELSE NotCalled(s1.segment.right, s1.right)
             s2 == [s1 EXCEPT !.right = c2.link, !.segment.right = c2.ret]
         IN  [node  |-> s2,
              panic |-> c1.panic \/ c2.panic,
              steps |-> c1.steps \cup c2.steps,
              calls |-> c1.calls + c2.calls + 1,
              spliced |-> c1.spliced \cup c2.spliced]

\* Node::insert(&mut self, segment).  node is *self on return.
Node_insert(self, segment) ==
    IF segment.right < self.segment.left
    THEN IF segment.right < sub_one(self.segment.left)
         THEN LET r == insert_link(self.left, segment) IN
              [node  |-> [self EXCEPT !.left = r.link],
               panic |-> r.panic,
               steps |-> {<<"sub_one", self.segment.left>>} \cup r.steps,
               calls |-> r.calls + 1,
               spliced |-> r.spliced]
         ELSE LET r == consume_left_link(self.left, segment.left) IN
              [node  |-> [self EXCEPT !.left = r.link, !.segment.left = r.ret],
               panic |-> r.panic,
               steps |-> {<<"sub_one", self.segment.left>>} \cup r.steps,
               calls |-> r.calls + 1,
               spliced |-> r.spliced]
    ELSE IF segment.left > self.segment.right
    THEN IF segment.left > add_one(self.segment.right)
         THEN LET r == insert_link(self.right, segment) IN
              [node  |-> [self EXCEPT !.right = r.link],
               panic |-> r.panic,
               steps |-> {<<"add_one", self.segment.right>>} \cup r.steps,
               calls |-> r.calls + 1,
               spliced |-> r.spliced]
         ELSE LET r == consume_right_link(self.right, segment.right) IN
              [node  |-> [self EXCEPT !.right = r.link, !.segment.right = r.ret],
               panic |-> r.panic,
               steps |-> {<<"add_one", self.segment.right>>} \cup r.steps,
               calls |-> r.calls + 1,
               spliced |-> r.spliced]
    ELSE LET c1 == IF segment.left < self.segment.left
                   THEN consume_left_link(self.left, segment.left)
                   ELSE NotCalled(self.segment.left, self.left)
             s1 == [self EXCEPT !.left = c1.link, !.segment.left = c1.ret]
             c2 == IF segment.right > s1.segment.right
                   THEN consume_right_link(s1.right, segment.right)
                   ELSE NotCalled(s1.segment.right, s1.right)
             s2 == [s1 EXCEPT !.right = c2.link, !.segment.right = c2.ret]
         IN  [node  |-> s2,
              panic |-> c1.panic \/ c2.panic,
              steps |-> c1.steps \cup c2.steps,
              calls |-> c1.calls + c2.calls + 1,
              spliced |-> c1.spliced \cup c2.spliced]

\* Node::contains that answers false above the node's segment instead of
\* looking into the right subtree.
Node_contains_left_only(self, value) ==
    IF value < self.segment.left
    THEN IF ~is_none(self.left)
         THEN Node_contains(self.left[1], value)
         ELSE FALSE
    ELSE IF value > self.segment.right
    THEN FALSE
    ELSE TRUE

\* Node::contains(&self, &value).
Node_contains(self, value) ==
    IF value < self.segment.left
    THEN IF ~is_none(self.left)
         THEN Node_contains(self.left[1], value)
         ELSE FALSE
    ELSE IF value > self.segment.right
    THEN IF ~is_none(self.right)
         THEN Node_contains(self.right[1], value)
         ELSE FALSE
    ELSE TRUE

\* ------------------------------------------------------------------------
\* Diet (the struct is its one field, root)
\* ------------------------------------------------------------------------
Diet_new == None

\* Diet::insert that installs no root when the tree is empty.
Diet_insert_drop(self, segment) ==
    IF ~is_none(self)
    THEN LET r == Node_insert(self[1], segment) IN
         [link |-> Some(r.node), panic |-> r.panic, steps |-> r.steps,
          calls |-> r.calls + 1, spliced |-> r.spliced]
    ELSE [link |-> self, panic |-> FALSE, steps |-> {},
          calls |-> 1, spliced |-> {}]

\* Diet::insert(&mut self, segment).  link is self.root on return.
Diet_insert(self, segment) ==
    IF ~is_none(self)
    THEN LET r == Node_insert(self[1], segment) IN
         [link |-> Some(r.node), panic |-> r.panic, steps |-> r.steps,
          calls |-> r.calls + 1,
          spliced |-> r.spliced]
    ELSE [link |-> Some(Node_new(segment)), panic |-> FALSE, steps |-> {},
          calls |-> 1, spliced |-> {}]

Diet_is_empty(self) == is_none(self)

\* clear that leaves the root in place.
Diet_clear_keep(self) == self

\* Diet::clear(&mut self): *self = Self::new().
Diet_clear(self) == Diet_new

Diet_contains(self, value) ==
    IF ~is_none(self) THEN Node_contains(self[1], value) ELSE FALSE

\* ------------------------------------------------------------------------
\* DietIterator (the struct is its one field, queue)
\* ------------------------------------------------------------------------
RECURSIVE descend(_, _)
\* DietIterator::descend(&mut self, current): the loop, one turn per call.
\* queue is self.queue on return.
descend(queue, current) ==
    IF is_none(current)
    THEN [queue |-> queue, panic |-> FALSE]
    ELSE LET taken == current      \* current.take()
             node  == taken[1]     \* .unwrap()
             r     == descend(Append(queue, [node EXCEPT !.left = None]),
                              node.left)
         IN  [queue |-> r.queue, panic |-> is_none(taken) \/ r.panic]

\* Diet::into_iter(self).
into_iter(self) == descend(<<>>, self)

\* next that does not descend into the right child of the node it pops.
next_no_right(queue) ==
    IF Len(queue) > 0
    THEN LET result == queue[Len(queue)]
             popped == SubSeq(queue, 1, Len(queue) - 1)
         IN  [item  |-> Some(result.segment),
              queue |-> popped,
              panic |-> FALSE]
    ELSE [item |-> None, queue |-> queue, panic |-> FALSE]

\* DietIterator::next(&mut self): item is the returned Option<Segment>.
next(queue) ==
    IF Len(queue) > 0
    THEN LET result == queue[Len(queue)]
             popped == SubSeq(queue, 1, Len(queue) - 1)
             d      == IF ~is_none(result.right)
                       THEN descend(popped, result.right)
                       ELSE [queue |-> popped, panic |-> FALSE]
         IN  [item  |-> Some(result.segment),
              queue |-> d.queue,
              panic |-> d.panic]
    ELSE [item |-> None, queue |-> queue, panic |-> FALSE]

RECURSIVE collect(_)
\* Iterator::collect on a DietIterator: next until it returns None.
collect(queue) ==
    LET n == next(queue) IN
    IF is_none(n.item) THEN <<>> ELSE <<n.item[1]>> \o collect(n.queue)

\* ------------------------------------------------------------------------
\* State
\* ------------------------------------------------------------------------
VARIABLES
    root,       \* Diet.root of the one Diet of the program
    mode,       \* "diet": the Diet is live; "iter": into_iter consumed it
    queue,      \* DietIterator.queue
    yielded,    \* the segments next has returned so far, in order
    lastItem,   \* what the last call of next returned (an Option<Segment>)
    iterSrc,    \* the root into_iter was called on
    inserted,   \* the values of all segments inserted since new / clear
    lastOp,     \* the operation that produced this state
    lastSeg,    \* Some(argument of that insert), else None
    prevRoot,   \* root before that operation
    lastEff,    \* panic / steps / calls observed in that operation
    pendingA,   \* SpecOrder: segments still to insert into dietA
    pendingB,   \* SpecOrder: the same segments in another order, for dietB
    dietA,      \* SpecOrder: root of the first Diet
    dietB,      \* SpecOrder: root of the second Diet
    segArgs,    \* SpecSegment: Some(<<left, right>>) handed to Segment::new
    segOut,     \* SpecSegment: what Segment::new did with them
    probe,      \* SpecSegment: Some(value) handed to Segment::contains
    probeOut    \* SpecSegment: what Segment::contains answered

dietVars == <<root, mode, queue, yielded, lastItem, iterSrc, inserted,
              lastOp, lastSeg, prevRoot, lastEff>>

orderVars == <<pendingA, pendingB, dietA, dietB>>

segVars == <<segArgs, segOut, probe, probeOut>>

vars == <<dietVars, orderVars, segVars>>

NoEffects == [panic |-> FALSE, steps |-> {}, calls |-> 0, spliced |-> {}]

Effects(r) ==
    [panic |-> r.panic, steps |-> r.steps, calls |-> r.calls,
     spliced |-> r.spliced]

Values(segment) == segment.left .. segment.right

DietInit ==
    /\ root = Diet_new
    /\ mode = "diet"
    /\ queue = <<>>
    /\ yielded = <<>>
    /\ lastItem = None
    /\ iterSrc = None
    /\ inserted = {}
    /\ lastOp = "new"
    /\ lastSeg = None
    /\ prevRoot = None
    /\ lastEff = NoEffects

OrderIdle ==
    /\ pendingA = <<>>
    /\ pendingB = <<>>
    /\ dietA = Diet_new
    /\ dietB = Diet_new

SegIdle ==
    /\ segArgs = None
    /\ segOut = [panic |-> FALSE, value |-> None]
    /\ probe = None
    /\ probeOut = FALSE

Init == DietInit /\ OrderIdle /\ SegIdle

\* ------------------------------------------------------------------------
\* Operations on the Diet
\* ------------------------------------------------------------------------
\* let diet = Diet::new(), replacing whatever the program held before.
New ==
    /\ root' = Diet_new
    /\ mode' = "diet"
    /\ queue' = <<>>
    /\ yielded' = <<>>
    /\ lastItem' = None
    /\ iterSrc' = None
    /\ inserted' = {}
    /\ lastOp' = "new"
    /\ lastSeg' = None
    /\ prevRoot' = root
    /\ lastEff' = NoEffects
    /\ UNCHANGED <<orderVars, segVars>>

\* diet.insert(segment)
Insert(segment) ==
    /\ mode = "diet"
    /\ LET r == Diet_insert(root, segment) IN
       /\ root' = r.link
       /\ lastEff' = Effects(r)
    /\ inserted' = inserted \cup Values(segment)
    /\ lastOp' = "insert"
    /\ lastSeg' = Some(segment)
    /\ prevRoot' = root
    /\ UNCHANGED <<mode, queue, yielded, lastItem, iterSrc>>
    /\ UNCHANGED <<orderVars, segVars>>

\* diet.clear()
Clear ==
    /\ mode = "diet"
    /\ root' = Diet_clear(root)
    /\ inserted' = {}
    /\ lastOp' = "clear"
    /\ lastSeg' = None
    /\ prevRoot' = root
    /\ lastEff' = NoEffects
    /\ UNCHANGED <<mode, queue, yielded, lastItem, iterSrc>>
    /\ UNCHANGED <<orderVars, segVars>>

\* let iter = diet.into_iter(): the Diet is moved into the iterator.
IntoIter ==
    /\ mode = "diet"
    /\ LET it == into_iter(root) IN
       /\ queue' = it.queue
       /\ lastEff' = [NoEffects EXCEPT !.panic = it.panic]
    /\ iterSrc' = root
    /\ root' = None
    /\ mode' = "iter"
    /\ yielded' = <<>>
    /\ lastItem' = None
    /\ lastOp' = "into_iter"
    /\ lastSeg' = None
    /\ prevRoot' = root
    /\ UNCHANGED inserted
    /\ UNCHANGED <<orderVars, segVars>>

\* iter.next()
Next_ ==
    /\ mode = "iter"
    /\ LET n == next(queue) IN
       /\ queue' = n.queue
       /\ lastItem' = n.item
       /\ lastEff' = [NoEffects EXCEPT !.panic = n.panic]
       /\ yielded' = IF is_none(n.item) THEN yielded
                     ELSE Append(yielded, n.item[1])
    /\ lastOp' = "next"
    /\ lastSeg' = None
    /\ prevRoot' = root
    /\ UNCHANGED <<root, mode, iterSrc, inserted>>
    /\ UNCHANGED <<orderVars, segVars>>

Next ==
    \/ New
    \/ \E segment \in Segments : Insert(segment)
    \/ Clear
    \/ IntoIter
    \/ Next_

Spec == Init /\ [][Next]_vars

\* ------------------------------------------------------------------------
\* Two Diets fed the same segments in two orders
\* ------------------------------------------------------------------------
Reordered(seq, f) == [i \in 1 .. Len(seq) |-> seq[f[i]]]

OrderSegments == { s \in Segments : s.right <= MaxOrderVal }

OrderInit ==
    /\ pendingA \in [1 .. MaxSegs -> OrderSegments]
    /\ \E f \in Permutations(1 .. MaxSegs) : pendingB = Reordered(pendingA, f)
    /\ dietA = Diet_new
    /\ dietB = Diet_new
    /\ DietInit
    /\ SegIdle

\* dietA.insert(next of pendingA); dietB.insert(next of pendingB)
InsertBoth ==
    /\ Len(pendingA) > 0
    /\ dietA' = Diet_insert(dietA, Head(pendingA)).link
    /\ dietB' = Diet_insert(dietB, Head(pendingB)).link
    /\ pendingA' = Tail(pendingA)
    /\ pendingB' = Tail(pendingB)
    /\ UNCHANGED <<dietVars, segVars>>

OrderNext == InsertBoth

SpecOrder == OrderInit /\ [][OrderNext]_vars

\* ------------------------------------------------------------------------
\* Segment::new and Segment::contains on their own
\* ------------------------------------------------------------------------
\* Segment::new(left, right)
SegNew(left, right) ==
    /\ segArgs' = Some(<<left, right>>)
    /\ segOut' = Segment_new(left, right)
    /\ probe' = None
    /\ probeOut' = FALSE
    /\ UNCHANGED <<dietVars, orderVars>>

\* segment.contains(&value) on the segment Segment::new returned
SegContains(value) ==
    /\ ~is_none(segOut.value)
    /\ probe' = Some(value)
    /\ probeOut' = Segment_contains(segOut.value[1], value)
    /\ UNCHANGED <<segArgs, segOut>>
    /\ UNCHANGED <<dietVars, orderVars>>

SegNext ==
    \/ \E left \in Domain, right \in Domain : SegNew(left, right)
    \/ \E value \in Domain : SegContains(value)

SpecSegment == Init /\ [][SegNext]_vars

\* ------------------------------------------------------------------------
\* Reference notions the properties are stated with
\* ------------------------------------------------------------------------
RECURSIVE InOrder(_)
\* The segments of a tree, left subtree first, then the node, then the right.
InOrder(link) ==
    IF is_none(link) THEN <<>>
    ELSE InOrder(link[1].left) \o <<link[1].segment>> \o InOrder(link[1].right)

NodeCount(link) == Len(InOrder(link))

Stored(link) == { InOrder(link)[i] : i \in 1 .. NodeCount(link) }

\* What iterating a Diet with this root yields.
Iterated(link) == collect(into_iter(link).queue)

\* The values some stored segment covers.
Covered(link) == UNION { Values(t) : t \in Stored(link) }

\* Every pair of a sequence of segments is in ascending order with at least
\* one missing value in between.
Separated(seq) ==
    \A i \in 1 .. Len(seq) : \A j \in 1 .. Len(seq) :
        i < j => seq[i].right + 1 < seq[j].left

\* The maximal runs of consecutive values of a set, as segments.
Runs(S) ==
    { [left |-> l, right |-> r] :
        <<l, r>> \in { p \in S \X S :
                         /\ p[1] <= p[2]
                         /\ \A v \in p[1] .. p[2] : v \in S
                         /\ (p[1] - 1) \notin S
                         /\ (p[2] + 1) \notin S } }

RECURSIVE Ascending(_)
\* A set of segments with distinct left ends as a sequence ascending by left.
Ascending(T) ==
    IF T = {} THEN <<>>
    ELSE LET first == CHOOSE t \in T : \A u \in T : t.left <= u.left
         IN  <<first>> \o Ascending(T \ {first})

\* The minimal decomposition of a set of values: its maximal runs, ascending.
Decomposition(S) == Ascending(Runs(S))

\* Two segments overlap or are adjacent (no missing value between them).
Touching(s, t) == s.left <= t.right + 1 /\ t.left <= s.right + 1

\* ------------------------------------------------------------------------
\* Properties
\* ------------------------------------------------------------------------

\* C1: after any sequence of inserts into an empty Diet, contains(v) is true
\* exactly for the values of the inserted segments, and ascending iteration
\* yields the minimal decomposition of their union.
C1_ExactUnion ==
    mode = "diet" =>
        /\ \A v \in Domain : Diet_contains(root, v) <=> v \in inserted
        /\ Iterated(root) = Decomposition(inserted)

\* C2: immediately after insert(s), contains(v) is true for every value v
\* with s.left <= v <= s.right.
C2_InsertedIsContained ==
    lastOp = "insert" =>
        \A v \in Values(lastSeg[1]) : Diet_contains(root, v)

\* C3: after any sequence of inserts, the segments obtained by iterating the
\* Diet are pairwise disjoint, pairwise non-adjacent and strictly ascending
\* by left; so are the segments an iterator has yielded.
C3_IteratedSeparated ==
    /\ mode = "diet" => Separated(Iterated(root))
    /\ mode = "iter" => Separated(yielded)

\* C3 witness: an insert merged two stored segments and two segments remain.
C3_Witness ==
    /\ mode = "diet"
    /\ lastOp = "insert"
    /\ NodeCount(prevRoot) = 3
    /\ Len(Iterated(root)) = 2

\* C4: every permutation of the insertion order of the same segments gives
\* the same contains predicate and the same iterated sequence.
C4_OrderIndependent ==
    Len(pendingA) = 0 =>
        /\ \A v \in Domain : Diet_contains(dietA, v) <=> Diet_contains(dietB, v)
        /\ Iterated(dietA) = Iterated(dietB)

\* C5: inserting a segment that touches (is adjacent to or overlaps) a stored
\* segment leaves one stored segment spanning both; inserting a segment that
\* touches two stored segments leaves one stored segment spanning all three.
C5_MergeSpans ==
    lastOp = "insert" =>
        LET s == lastSeg[1] IN
        /\ \A t \in Stored(prevRoot) :
              Touching(s, t) =>
                 \E u \in Stored(root) :
                    /\ u.left <= s.left /\ u.left <= t.left
                    /\ u.right >= s.right /\ u.right >= t.right
        /\ \A t1 \in Stored(prevRoot) : \A t2 \in Stored(prevRoot) :
              (t1 # t2 /\ Touching(s, t1) /\ Touching(s, t2)) =>
                 \E u \in Stored(root) :
                    /\ u.left <= s.left /\ u.left <= t1.left /\ u.left <= t2.left
                    /\ u.right >= s.right /\ u.right >= t1.right
                    /\ u.right >= t2.right

\* C6: inserting a segment fully covered by stored segments changes nothing:
\* tree shape, stored segments, contains results and iterated sequence stay.
C6_CoveredInsertIsNoOp ==
    (lastOp = "insert" /\ Values(lastSeg[1]) \subseteq Covered(prevRoot)) =>
        /\ root = prevRoot
        /\ Iterated(root) = Iterated(prevRoot)
        /\ \A v \in Domain : Diet_contains(root, v) <=> Diet_contains(prevRoot, v)

\* C6 witness: a covered segment was inserted into a tree of three nodes, and
\* the node covering it is not the root.
C6_Witness ==
    /\ lastOp = "insert"
    /\ Values(lastSeg[1]) \subseteq Covered(prevRoot)
    /\ NodeCount(prevRoot) = 3
    /\ ~(Values(lastSeg[1]) \subseteq Values(prevRoot[1].segment))

\* C7: the consuming iterator yields every stored segment exactly once, in
\* ascending order, then None: a tree of n nodes gives exactly n calls of next
\* that return Some, and the queue is empty afterwards.
C7_IteratorYieldsAll ==
    mode = "iter" =>
        LET all == InOrder(iterSrc)
            n   == NodeCount(iterSrc)
        IN  /\ Len(yielded) <= n
            /\ yielded = SubSeq(all, 1, Len(yielded))
            /\ \A i \in 1 .. Len(yielded) : \A j \in 1 .. Len(yielded) :
                  i < j => yielded[i].left < yielded[j].left
            /\ (Len(queue) = 0) <=> (Len(yielded) = n)
            /\ (lastOp = "next" /\ is_none(lastItem)) =>
                  (Len(yielded) = n /\ Len(queue) = 0)
            /\ (lastOp = "next" /\ ~is_none(lastItem)) =>
                  lastItem[1] = yielded[Len(yielded)]

\* C7 witness: a tree of three nodes whose root has both children was
\* iterated to the end and next returned None.
C7_Witness ==
    /\ mode = "iter"
    /\ lastOp = "next"
    /\ is_none(lastItem)
    /\ Len(yielded) = 3
    /\ ~is_none(iterSrc[1].left)
    /\ ~is_none(iterSrc[1].right)

\* C8: after clear the Diet is indistinguishable from a new one: is_empty is
\* true, contains is false for every value, and inserts and iteration give
\* what they give on a new Diet.
C8_ClearIsFresh ==
    lastOp = "clear" =>
        /\ root = Diet_new
        /\ Diet_is_empty(root)
        /\ \A v \in Domain : ~Diet_contains(root, v)
        /\ Iterated(root) = Iterated(Diet_new)
        /\ \A s \in Segments : Diet_insert(root, s) = Diet_insert(Diet_new, s)

\* C8 witness: a Diet holding two segments or more was cleared.
C8_Witness == lastOp = "clear" /\ NodeCount(prevRoot) >= 2

\* C9: no operation fails: no unwrap is applied to None (consume_left_link,
\* consume_right_link, descend), no add_one or sub_one steps out of the
\* domain, and every insert terminates, making at most 2n + 2 calls on a tree
\* of n nodes.
C9_NeverFails ==
    /\ ~lastEff.panic
    /\ <<"add_one", MaxVal>> \notin lastEff.steps
    /\ <<"sub_one", 0>> \notin lastEff.steps
    /\ lastOp = "insert" => lastEff.calls <= 2 * NodeCount(prevRoot) + 2

\* C9 witness: an insert spliced a node out of a tree of three nodes.
C9_Witness ==
    /\ lastOp = "insert"
    /\ NodeCount(prevRoot) = 3
    /\ NodeCount(root) < NodeCount(prevRoot)
    /\ ~lastEff.panic

\* C10: Segment::new(left, right) fails exactly when left > right, and
\* otherwise returns a segment that contains v iff left <= v <= right.
C10_SegmentNew ==
    ~is_none(segArgs) =>
        LET left  == segArgs[1][1]
            right == segArgs[1][2]
        IN  /\ segOut.panic <=> left > right
            /\ segOut.panic => is_none(segOut.value)
            /\ ~segOut.panic =>
                  /\ ~is_none(segOut.value)
                  /\ \A v \in Domain :
                        Segment_contains(segOut.value[1], v)
                            <=> (left <= v /\ v <= right)
            /\ ~is_none(probe) =>
                  (probeOut <=> (left <= probe[1] /\ probe[1] <= right))

\* C10 witness: Segment::new(5, 5) returned and was asked about 5.
C10_Witness ==
    /\ segArgs = Some(<<5, 5>>)
    /\ ~segOut.panic
    /\ probe = Some(5)
    /\ probeOut

\* C11: is_empty is true iff the tree has no root: true for a new or just
\* cleared Diet, false after at least one insert since the last new / clear.
C11_EmptyIffNoInsert ==
    mode = "diet" =>
        /\ Diet_is_empty(root) <=> (root = None)
        /\ lastOp \in {"new", "clear"} => Diet_is_empty(root)
        /\ Diet_is_empty(root) <=> (inserted = {})

\* C11 witness: an insert merged three stored segments into one and the
\* Diet is not empty.
C11_Witness ==
    /\ mode = "diet"
    /\ lastOp = "insert"
    /\ NodeCount(prevRoot) = 3
    /\ NodeCount(root) = 1
    /\ ~Diet_is_empty(root)

RECURSIVE GapOrdered(_)
\* Every node lies above all of its left subtree and below all of its right
\* subtree, with at least one missing value in between.
GapOrdered(link) ==
    is_none(link) \/
        LET node == link[1] IN
        /\ \A t \in Stored(node.left) : t.right + 1 < node.segment.left
        /\ \A t \in Stored(node.right) : t.left - 1 > node.segment.right
        /\ GapOrdered(node.left)
        /\ GapOrdered(node.right)

\* C12: in every reachable tree, for every node N, every segment of N's left
\* subtree has right + 1 < N.segment.left and every segment of N's right
\* subtree has left - 1 > N.segment.right.
C12_GapInvariant ==
    /\ GapOrdered(root)
    /\ GapOrdered(iterSrc)

\* C12 witness: a tree of three nodes, reached by an insert that spliced a
\* node out of four, whose root has both children.
C12_Witness ==
    /\ mode = "diet"
    /\ lastOp = "insert"
    /\ lastEff.spliced # {}
    /\ NodeCount(root) = 3
    /\ ~is_none(root[1].left)
    /\ ~is_none(root[1].right)

\* The subtree of a spliced node that is dropped with it: its right subtree
\* in consume_left_link, its left subtree in consume_right_link.
FarChild(sp) == IF sp.side = "left" THEN sp.node.right ELSE sp.node.left

\* The subtree of a spliced node that takes its place in the link.
NearChild(sp) == IF sp.side = "left" THEN sp.node.left ELSE sp.node.right

RECURSIVE DroppedCount(_)
\* The number of nodes that leave the tree with a set of spliced nodes.
DroppedCount(S) ==
    IF S = {} THEN 0
    ELSE LET sp == CHOOSE x \in S : TRUE
         IN  1 + NodeCount(FarChild(sp)) + DroppedCount(S \ {sp})

\* C13 as claimed: a node spliced out by consume_left_link has no right child
\* (by consume_right_link: no left child), so a call removes at most one
\* node from the tree.
C13_SplicedAlone ==
    lastOp = "insert" =>
        /\ \A sp \in lastEff.spliced : is_none(FarChild(sp))
        /\ NodeCount(prevRoot) - NodeCount(root) <= Cardinality(lastEff.spliced)

\* C13: a consume_*_link call splices at most one node out of its link; the
\* subtree of that node on the far side is dropped with it and the subtree
\* on the near side stays, so the call removes one node plus the nodes of the
\* far subtree.
C13_SpliceDropsFarSubtree ==
    lastOp = "insert" =>
        /\ \A a \in lastEff.spliced : \A b \in lastEff.spliced :
              a.side = b.side => a = b
        /\ lastEff.spliced # {} =>
              NodeCount(prevRoot) - NodeCount(root) = DroppedCount(lastEff.spliced)
        /\ \A sp \in lastEff.spliced :
              /\ Stored(NearChild(sp)) \subseteq Stored(root)
              /\ \A t \in Stored(FarChild(sp)) \cup {sp.node.segment} :
                    t \notin Stored(root) \/ t \in Stored(NearChild(sp))

\* C13 witness: an insert spliced out a node that had a far subtree.
C13_Witness ==
    /\ lastOp = "insert"
    /\ \E sp \in lastEff.spliced : ~is_none(FarChild(sp))

\* C14: in every reachable tree, Diet::contains(v), the descent along one
\* path, is true iff some segment stored anywhere in the tree contains v,
\* that is, iff a segment that iteration yields contains v.
C14_ContainsIffStored ==
    mode = "diet" =>
        \A v \in Domain :
            /\ Diet_contains(root, v)
                  <=> \E t \in Stored(root) : Segment_contains(t, v)
            /\ Diet_contains(root, v)
                  <=> \E i \in 1 .. Len(Iterated(root)) :
                         Segment_contains(Iterated(root)[i], v)

\* C14 witness: a tree of four nodes of depth three or more, so that values
\* are found below the root's children.
C14_Witness ==
    /\ mode = "diet"
    /\ NodeCount(root) = 4
    /\ (is_none(root[1].left) \/ is_none(root[1].right))

RECURSIVE LeafAdded(_, _, _)
\* new is old with one empty link replaced by a leaf holding segment s, every
\* node of old keeping its segment and its place.
LeafAdded(old, new, s) ==
    IF is_none(old)
    THEN new = Some(Node_new(s))
    ELSE /\ ~is_none(new)
         /\ new[1].segment = old[1].segment
         /\ \/ new[1].right = old[1].right /\ LeafAdded(old[1].left, new[1].left, s)
            \/ new[1].left = old[1].left /\ LeafAdded(old[1].right, new[1].right, s)

\* C15: inserting a segment separated by a gap of at least one value from
\* every stored segment adds exactly that segment as a new leaf: one more
\* stored segment, every earlier node keeping its bounds and its place.
C15_SeparateInsertAddsLeaf ==
    (lastOp = "insert"
        /\ \A t \in Stored(prevRoot) : ~Touching(lastSeg[1], t)) =>
        /\ NodeCount(root) = NodeCount(prevRoot) + 1
        /\ Stored(root) = Stored(prevRoot) \cup {lastSeg[1]}
        /\ LeafAdded(prevRoot, root, lastSeg[1])

\* C15 witness: a separated segment was inserted into a tree of three nodes
\* and landed below a child of the root.
C15_Witness ==
    /\ lastOp = "insert"
    /\ NodeCount(prevRoot) = 3
    /\ NodeCount(root) = 4
    /\ \A t \in Stored(prevRoot) : ~Touching(lastSeg[1], t)
    /\ root[1].left # Some(Node_new(lastSeg[1]))
    /\ root[1].right # Some(Node_new(lastSeg[1]))

RECURSIVE Widened(_, _)
\* Node by node from the root, down to the first node whose segment differs:
\* the segment in new has a left end no higher and a right end no lower than
\* the segment at the same place in old.
Widened(old, new) ==
    is_none(old) \/ is_none(new) \/
        /\ new[1].segment.left <= old[1].segment.left
        /\ new[1].segment.right >= old[1].segment.right
        /\ new[1].segment = old[1].segment =>
              /\ Widened(old[1].left, new[1].left)
              /\ Widened(old[1].right, new[1].right)

\* C16: every stored segment has left <= right in every reachable state, also
\* after a merge rewrote a node's bounds, and a merge only lowers a node's
\* left bound and raises its right bound.
C16_BoundsOrdered ==
    /\ \A t \in Stored(root) \cup Stored(iterSrc) : t.left <= t.right
    /\ \A i \in 1 .. Len(yielded) : yielded[i].left <= yielded[i].right
    /\ lastOp = "insert" => Widened(prevRoot, root)

\* C16 witness: an insert rewrote both bounds of a node below the root.
C16_Witness ==
    /\ lastOp = "insert"
    /\ ~is_none(prevRoot)
    /\ root[1].segment = prevRoot[1].segment
    /\ \E side \in {"left", "right"} :
          LET old == IF side = "left" THEN prevRoot[1].left ELSE prevRoot[1].right
              new == IF side = "left" THEN root[1].left ELSE root[1].right
          IN  /\ ~is_none(old)
              /\ ~is_none(new)
              /\ new[1].segment.left < old[1].segment.left
              /\ new[1].segment.right > old[1].segment.right

\* Segment t lies within segment u.
Within(t, u) == u.left <= t.left /\ t.right <= u.right

\* C17: insert never forgets a value: what contains reported before an insert
\* it reports after it, and every node an insert drops (the spliced node and
\* the subtree dropped with it) lies within a segment stored afterwards.
C17_InsertKeepsValues ==
    lastOp = "insert" =>
        /\ \A v \in Domain : Diet_contains(prevRoot, v) => Diet_contains(root, v)
        /\ \A t \in Stored(prevRoot) : \E u \in Stored(root) : Within(t, u)
        /\ \A sp \in lastEff.spliced :
              \A t \in Stored(FarChild(sp)) \cup {sp.node.segment} :
                 \E u \in Stored(root) : Within(t, u)

\* C17 witness: one insert spliced a node out on each side of the node it
\* widened.
C17_Witness ==
    /\ lastOp = "insert"
    /\ Cardinality(lastEff.spliced) = 2
    /\ \E sp \in lastEff.spliced : sp.node.segment.left < sp.node.segment.right

\* C18: after any sequence of inserts since the last new / clear, contains(v)
\* is true only for values of inserted segments, and no stored segment covers
\* a value that was never inserted.
C18_OnlyInserted ==
    mode = "diet" =>
        /\ \A v \in Domain : Diet_contains(root, v) => v \in inserted
        /\ Covered(root) \subseteq inserted

\* C18 witness: a merge spliced a node out and left two segments or more.
C18_Witness ==
    /\ mode = "diet"
    /\ lastOp = "insert"
    /\ lastEff.spliced # {}
    /\ NodeCount(root) >= 2
    /\ Covered(root) # {}
    /\ lastSeg[1].left < lastSeg[1].right

\* C19: over the bounded domain 0 .. MaxVal, add_one is never applied to
\* MaxVal and sub_one never to 0 (lines 44, 64, 85, 94), so that every step
\* taken is the plain successor or predecessor.
C19_NoStepPastBounds ==
    \A st \in lastEff.steps :
        /\ st[1] = "add_one" => (st[2] # MaxVal /\ add_one(st[2]) = st[2] + 1)
        /\ st[1] = "sub_one" => (st[2] # 0 /\ sub_one(st[2]) = st[2] - 1)

\* C19 witness: the whole domain was inserted into a tree that stores
\* segments touching 0 and MaxVal, and the insert stepped a bound.
C19_Witness ==
    /\ lastOp = "insert"
    /\ lastSeg[1] = [left |-> 0, right |-> MaxVal]
    /\ \E t \in Stored(prevRoot) : t.left = 0
    /\ \E t \in Stored(prevRoot) : t.right = MaxVal
    /\ lastEff.steps # {}

====
